---- MODULE Spec2Model ----
(***************************************************************************)
(* State-machine model of the persona response pipeline of the Group       *)
(* Identity Simulation Platform: the Response Generator and the Fan-out    *)
(* Coordinator (services/claude_service.py), the Simulation Store          *)
(* (database.py) and the simulate / delete endpoints (main.py).            *)
(*                                                                         *)
(* Six specifications share the definitions:                              *)
(*   SpecGen     generate_persona_response applied to every bounded reply  *)
(*   SpecFanout  generate_all_persona_responses called on its own          *)
(*   SpecStore   the store's functions called directly                     *)
(*   SpecRead    get_simulation on a store with undecodable columns        *)
(*   SpecTxn     delete_simulation and get_simulation statement by         *)
(*               statement, on connections of their own                    *)
(*   Spec        the application: simulate and delete requests             *)
(***************************************************************************)
EXTENDS Integers, Sequences, FiniteSets, TLC

VARIABLES
    gen,                \* one call of generate_persona_response (SpecGen)
    simulations,        \* table simulations: id -> row
    sim_seq,            \* AUTOINCREMENT sequence of simulations
    persona_responses,  \* table persona_responses: set of rows
    resp_seq,           \* AUTOINCREMENT sequence of persona_responses
    req,                \* req[r]: the coroutine of simulate request r
    in_flight,          \* model calls started and not yet returned
    ret,                \* the last direct store or endpoint call: args and result
    now,                \* CURRENT_TIMESTAMP, in seconds
    issued,             \* history: the ids create_simulation has returned
    txn,                \* the open write transaction of a stepwise delete_simulation
    reader              \* a get_simulation call between its two SELECTs

vars ==
    <<gen, simulations, sim_seq, persona_responses, resp_seq, req, in_flight, ret,
      now, issued, txn, reader>>

(***************************************************************************)
(* Bounds of the model.                                                    *)
(***************************************************************************)
NumRequests == 1     \* simulate requests of one run
MaxSelected == 2     \* length of a request's personas list
MaxLines == 3        \* lines of a model reply
MaxStoreCalls == 3   \* inserting calls of one SpecStore run
MaxClock == 1        \* seconds the clock advances in one SpecStore run

(***************************************************************************)
(* JSON values.  Every value has the same shape, so that any two can be    *)
(* compared: a tag t and one slot per kind.  A list holds strings, an      *)
(* object maps keys to strings: the response schema nests no deeper.       *)
(***************************************************************************)
NoKeys == [k \in {} |-> ""]

JNull == [t |-> "null", n |-> 0, s |-> "", l |-> <<>>, o |-> NoKeys]

JInt(i) == [t |-> "int", n |-> i, s |-> "", l |-> <<>>, o |-> NoKeys]

JStr(x) == [t |-> "str", n |-> 0, s |-> x, l |-> <<>>, o |-> NoKeys]

JList(q) == [t |-> "list", n |-> 0, s |-> "", l |-> q, o |-> NoKeys]

JObj(f) == [t |-> "dict", n |-> 0, s |-> "", l |-> <<>>, o |-> f]

\* A decoded reply: a dict of values (d), or a value that is no dict (v).
NoFields == [k \in {} |-> JNull]

PyDict(f) == [t |-> "dict", d |-> f, v |-> JNull]

PyOther(x) == [t |-> x.t, d |-> NoFields, v |-> x]

\* dict.get(key, default)
Get(f, key, default) == IF key \in DOMAIN f THEN f[key] ELSE default

(***************************************************************************)
(* The response schema (schemas.py).                                       *)
(***************************************************************************)
FoundationKeys ==
    {"care_harm", "fairness_cheating", "loyalty_betrayal",
     "authority_subversion", "sanctity_degradation", "liberty_oppression"}

TextFields ==
    {"initial_reaction", "emotional_response", "trust_factors",
     "identity_protective_reasoning", "authentic_voice_response"}

ListFields ==
    {"concerns", "what_resonates", "barriers_to_persuasion", "suggested_reframings"}

ResponseFields ==
    {"receptivity_score", "moral_foundations_analysis"} \cup TextFields \cup ListFields

ScoreMin == 0

ScoreMax == 100

(***************************************************************************)
(* The replies of the model backend.  A reply text is a sequence of        *)
(* lines; a line is a fence marker, an indented fence marker, blank,       *)
(* prose, or one complete JSON document.                                   *)
(***************************************************************************)
\* "~~~" stands for the three backquotes of a fence marker.
Fence == "~~~"

FenceJson == "~~~json"

IndentedFence == " ~~~"

Blank == ""

Prose == "Here is my analysis:"

Unable == "Unable to analyze"

AllFoundations(x) == [k \in FoundationKeys |-> x]

\* A reply that follows RESPONSE_FORMAT_INSTRUCTION.
DocOk ==
    PyDict([receptivity_score |-> JInt(80),
            initial_reaction |-> JStr("reaction"),
            emotional_response |-> JStr("emotion"),
            moral_foundations_analysis |-> JObj(AllFoundations("analysis")),
            concerns |-> JList(<<"c1", "c2">>),
            what_resonates |-> JList(<<"w1">>),
            barriers_to_persuasion |-> JList(<<"b1", "b2">>),
            trust_factors |-> JStr("trust"),
            suggested_reframings |-> JList(<<"s1">>),
            identity_protective_reasoning |-> JStr("identity"),
            authentic_voice_response |-> JStr("voice")])

\* The same with a score outside 0..100.
DocScoreHigh == PyDict([DocOk.d EXCEPT !["receptivity_score"] = JInt(150)])

\* An object that holds a list where the schema has text.
DocTextIsList == PyDict([DocOk.d EXCEPT !["initial_reaction"] = JList(<<"r1", "r2">>)])

\* An object with only the score.
DocPartial == PyDict([k \in {"receptivity_score"} |-> JInt(30)])

\* Valid JSON that is no object: a list.
DocNotObject == PyOther(JList(<<"x">>))

DocumentOf(line) ==
    CASE line = "{ok}" -> DocOk
      [] line = "{score:150}" -> DocScoreHigh
      [] line = "{initial_reaction:[]}" -> DocTextIsList
      [] line = "{score:30}" -> DocPartial
      [] line = "[x]" -> DocNotObject

DocLines == {"{ok}", "{score:150}", "{initial_reaction:[]}", "{score:30}", "[x]"}

Lines == {Fence, FenceJson, IndentedFence, Blank, Prose} \cup DocLines

RECURSIVE SeqsUpTo(_, _)
SeqsUpTo(S, n) ==
    IF n = 0 THEN {<<>>}
    ELSE LET shorter == SeqsUpTo(S, n - 1)
         IN shorter \cup {Append(q, x) : q \in {p \in shorter : Len(p) = n - 1}, x \in S}

ReplyTexts == SeqsUpTo(Lines, MaxLines)

\* What client.messages.create and response.content[0].text can do: raise,
\* return no content block, or return a text.
Outcome(kind, lines) == [kind |-> kind, lines |-> lines]

ApiError == Outcome("api_error", <<>>)

NoContent == Outcome("no_content", <<>>)

Outcomes == {ApiError, NoContent} \cup {Outcome("text", q) : q \in ReplyTexts}

(***************************************************************************)
(* generate_persona_response (services/claude_service.py).                 *)
(***************************************************************************)
StartsWithFence(line) == line \in {Fence, FenceJson}

RECURSIVE DropBlankHead(_)
DropBlankHead(lines) ==
    IF lines /= <<>> /\ Head(lines) = Blank THEN DropBlankHead(Tail(lines)) ELSE lines

RECURSIVE DropBlankTail(_)
DropBlankTail(lines) ==
    IF lines /= <<>> /\ lines[Len(lines)] = Blank
    THEN DropBlankTail(SubSeq(lines, 1, Len(lines) - 1))
    ELSE lines

\* str.strip() of the whole text: the blank lines at both ends go, and so does
\* the indentation of the first line left.
Strip(lines) ==
    LET inner == DropBlankTail(DropBlankHead(lines))
    IN IF inner /= <<>> /\ inner[1] = IndentedFence
       THEN <<Fence>> \o Tail(inner)
       ELSE inner

\* The loop keeping only the lines inside a fenced block.
RECURSIVE json_lines_inside(_, _)
json_lines_inside(lines, in_block) ==
    IF lines = <<>> THEN <<>>
    ELSE LET line == Head(lines)
         IN IF StartsWithFence(line)
            THEN json_lines_inside(Tail(lines), ~in_block)
            ELSE IF in_block
                 THEN <<line>> \o json_lines_inside(Tail(lines), in_block)
                 ELSE json_lines_inside(Tail(lines), in_block)

\* The loop over lines: json_lines, with in_block toggled at every fence line.
RECURSIVE json_lines(_, _)
json_lines(lines, in_block) ==
    IF lines = <<>> THEN <<>>
    ELSE LET line == Head(lines)
         IN IF StartsWithFence(line)
            THEN json_lines(Tail(lines), ~in_block)
            ELSE IF in_block \/ ~StartsWithFence(line)
                 THEN <<line>> \o json_lines(Tail(lines), in_block)
                 ELSE json_lines(Tail(lines), in_block)

\* The trimmed reply handed to json.loads with its fences left in.
response_text_fenced(lines) == Strip(lines)

\* The text handed to json.loads.
response_text(lines) ==
    LET stripped == Strip(lines)
    IN IF stripped /= <<>> /\ StartsWithFence(stripped[1])
       THEN json_lines(stripped, FALSE)
       ELSE stripped

\* json.loads of the joined lines: whitespace around one document is skipped;
\* anything else, no document or a second document is a JSONDecodeError.
Content(lines) == SelectSeq(lines, LAMBDA l : l /= Blank)

Decodable(lines) == Len(Content(lines)) = 1 /\ Content(lines)[1] \in DocLines

json_loads(lines) == DocumentOf(Content(lines)[1])

\* The record of the except json.JSONDecodeError branch.
ParseErrorRecord ==
    PyDict([receptivity_score |-> JInt(50),
            initial_reaction |-> JStr("Error parsing response"),
            emotional_response |-> JStr("JSON parsing error"),
            moral_foundations_analysis |-> JObj(AllFoundations(Unable)),
            concerns |-> JList(<<"Response parsing failed">>),
            what_resonates |-> JList(<<>>),
            barriers_to_persuasion |-> JList(<<"Technical error">>),
            trust_factors |-> JStr("Unable to assess"),
            suggested_reframings |-> JList(<<>>),
            identity_protective_reasoning |-> JStr(Unable),
            authentic_voice_response |-> JStr("Raw response")])

\* The record of the except Exception branch; e is str(e).
ApiErrorRecord(e) ==
    PyDict([receptivity_score |-> JInt(50),
            initial_reaction |-> JStr("Error: " \o e),
            emotional_response |-> JStr("API error occurred"),
            moral_foundations_analysis |-> JObj(AllFoundations(Unable)),
            concerns |-> JList(<<"API error: " \o e>>),
            what_resonates |-> JList(<<>>),
            barriers_to_persuasion |-> JList(<<"Technical error">>),
            trust_factors |-> JStr("Unable to assess"),
            suggested_reframings |-> JList(<<>>),
            identity_protective_reasoning |-> JStr(Unable),
            authentic_voice_response |->
                JStr("An error occurred while generating the response.")])

\* How a call ends: it returns a value or raises.
Returned(x) == [kind |-> "return", value |-> x]

Raised(e) == [kind |-> "raise", value |-> PyOther(JStr(e))]

BackendDown == "backend unavailable"

IndexError == "list index out of range"

\* The function without its except Exception branch.
generate_persona_response_unguarded(outcome) ==
    IF outcome.kind = "api_error" THEN Raised(BackendDown)
    ELSE IF outcome.kind = "no_content" THEN Raised(IndexError)
    ELSE IF Decodable(response_text(outcome.lines))
         THEN Returned(json_loads(response_text(outcome.lines)))
         ELSE Returned(ParseErrorRecord)

\* The function with an except JSONDecodeError branch that forgets the lists.
generate_persona_response_partial(outcome) ==
    IF outcome.kind = "api_error" THEN Returned(ApiErrorRecord(BackendDown))
    ELSE IF outcome.kind = "no_content" THEN Returned(ApiErrorRecord(IndexError))
    ELSE IF Decodable(response_text(outcome.lines))
         THEN Returned(json_loads(response_text(outcome.lines)))
         ELSE Returned(PyDict([k \in DOMAIN ParseErrorRecord.d \ {"concerns"} |->
                                  ParseErrorRecord.d[k]]))

\* The function with a degraded record that holds no score.
generate_persona_response_untyped(outcome) ==
    IF outcome.kind = "api_error"
    THEN Returned(PyDict([ApiErrorRecord(BackendDown).d EXCEPT
                             !["receptivity_score"] = JNull]))
    ELSE IF outcome.kind = "no_content" THEN Returned(ApiErrorRecord(IndexError))
    ELSE IF Decodable(response_text(outcome.lines))
         THEN Returned(json_loads(response_text(outcome.lines)))
         ELSE Returned(ParseErrorRecord)

generate_persona_response(outcome) ==
    IF outcome.kind = "api_error" THEN Returned(ApiErrorRecord(BackendDown))
    ELSE IF outcome.kind = "no_content" THEN Returned(ApiErrorRecord(IndexError))
    ELSE IF Decodable(response_text(outcome.lines))
         THEN Returned(json_loads(response_text(outcome.lines)))
         ELSE Returned(ParseErrorRecord)

(***************************************************************************)
(* The typed construction of simulate_message (main.py), against the       *)
(* field types of MoralFoundationsAnalysis and PersonaResponse.            *)
(***************************************************************************)
\* MoralFoundationsAnalysis(...): .get on a value that is no dict raises.
MoralAnalysisBuilds(d) ==
    Get(d, "moral_foundations_analysis", JObj(NoKeys)).t = "dict"

moral_analysis(d) ==
    LET given == Get(d, "moral_foundations_analysis", JObj(NoKeys)).o
    IN JObj([k \in FoundationKeys |-> Get(given, k, "")])

\* PersonaResponse(...) with no range on the score.
PersonaResponseBuilds_unranged(d) ==
    /\ Get(d, "receptivity_score", JInt(50)).t = "int"
    /\ \A f \in TextFields : Get(d, f, JStr("")).t = "str"
    /\ \A f \in ListFields : Get(d, f, JList(<<>>)).t = "list"

\* PersonaResponse(...): every field has its type, the score its range.
PersonaResponseBuilds(d) ==
    LET score == Get(d, "receptivity_score", JInt(50))
    IN /\ score.t = "int"
       /\ score.n >= ScoreMin
       /\ score.n <= ScoreMax
       /\ \A f \in TextFields : Get(d, f, JStr("")).t = "str"
       /\ \A f \in ListFields : Get(d, f, JList(<<>>)).t = "list"

persona_response(d) ==
    PyDict([f \in ResponseFields |->
               IF f = "receptivity_score" THEN Get(d, f, JInt(50))
               ELSE IF f = "moral_foundations_analysis" THEN moral_analysis(d)
               ELSE IF f \in TextFields THEN Get(d, f, JStr(""))
               ELSE Get(d, f, JList(<<>>))])

\* One entry of response_list: a PersonaResponseWithMeta, or the fallback shape
\* of the except branch.
response_entry(persona_name, response_data) ==
    IF /\ response_data.t = "dict"
       /\ MoralAnalysisBuilds(response_data.d)
       /\ PersonaResponseBuilds(response_data.d)
    THEN [shape |-> "typed", persona_name |-> persona_name,
          response |-> persona_response(response_data.d), parse_error |-> ""]
    ELSE [shape |-> "fallback", persona_name |-> persona_name,
          response |-> response_data, parse_error |-> "validation error"]

(***************************************************************************)
(* json.dumps: a text is a sequence of tokens.                             *)
(***************************************************************************)
Quoted(x) == <<"\"", x, "\"">>

RECURSIVE DumpsItems(_)
DumpsItems(q) ==
    IF q = <<>> THEN <<>>
    ELSE IF Len(q) = 1 THEN Quoted(q[1])
    ELSE Quoted(q[1]) \o <<",">> \o DumpsItems(Tail(q))

\* The keys of an object in the order the reply format lists them.
FoundationOrder ==
    <<"care_harm", "fairness_cheating", "loyalty_betrayal",
      "authority_subversion", "sanctity_degradation", "liberty_oppression">>

FieldOrder ==
    <<"receptivity_score", "initial_reaction", "emotional_response",
      "moral_foundations_analysis", "concerns", "what_resonates",
      "barriers_to_persuasion", "trust_factors", "suggested_reframings",
      "identity_protective_reasoning", "authentic_voice_response">>

KeysOf(order, f) == SelectSeq(order, LAMBDA k : k \in DOMAIN f)

RECURSIVE DumpsStrMembers(_, _)
DumpsStrMembers(keys, f) ==
    IF keys = <<>> THEN <<>>
    ELSE Quoted(keys[1]) \o <<":">> \o Quoted(f[keys[1]])
         \o (IF Len(keys) = 1 THEN <<>> ELSE <<",">> \o DumpsStrMembers(Tail(keys), f))

DumpsValue(x) ==
    CASE x.t = "null" -> <<"null">>
      [] x.t = "int" -> <<ToString(x.n)>>
      [] x.t = "str" -> Quoted(x.s)
      [] x.t = "list" -> <<"[">> \o DumpsItems(x.l) \o <<"]">>
      [] x.t = "dict" -> <<"{">> \o DumpsStrMembers(KeysOf(FoundationOrder, x.o), x.o) \o <<"}">>

RECURSIVE DumpsMembers(_, _)
DumpsMembers(keys, f) ==
    IF keys = <<>> THEN <<>>
    ELSE Quoted(keys[1]) \o <<":">> \o DumpsValue(f[keys[1]])
         \o (IF Len(keys) = 1 THEN <<>> ELSE <<",">> \o DumpsMembers(Tail(keys), f))

\* json.dumps(response_data)
json_dumps(data) ==
    IF data.t = "dict"
    THEN <<"{">> \o DumpsMembers(KeysOf(FieldOrder, data.d), data.d) \o <<"}">>
    ELSE DumpsValue(data.v)

(***************************************************************************)
(* json.loads of a stored text, token by token.  A text that is no JSON    *)
(* document, or that goes on after its document, is a JSONDecodeError.     *)
(***************************************************************************)
\* The integers a stored text can spell.
IntLiterals == ScoreMin..(2 * ScoreMax)

IntTokens == {ToString(n) : n \in IntLiterals}

IntOf(token) == CHOOSE n \in IntLiterals : ToString(n) = token

ParseFail == [ok |-> FALSE, value |-> JNull, rest |-> <<>>]

Parsed(x, rest) == [ok |-> TRUE, value |-> x, rest |-> rest]

From(tokens, i) == SubSeq(tokens, i, Len(tokens))

\* The items of an array after its "[" or a ",": strings up to the "]".
RECURSIVE ParseItems(_, _)
ParseItems(tokens, items) ==
    IF Len(tokens) >= 4 /\ tokens[1] = "\"" /\ tokens[3] = "\""
    THEN IF tokens[4] = "]" THEN Parsed(JList(Append(items, tokens[2])), From(tokens, 5))
         ELSE IF tokens[4] = "," THEN ParseItems(From(tokens, 5), Append(items, tokens[2]))
         ELSE ParseFail
    ELSE ParseFail

\* The members of a nested object after its "{" or a ",".
RECURSIVE ParseStrMembers(_, _)
ParseStrMembers(tokens, f) ==
    IF /\ Len(tokens) >= 8
       /\ tokens[1] = "\"" /\ tokens[3] = "\"" /\ tokens[4] = ":"
       /\ tokens[5] = "\"" /\ tokens[7] = "\""
    THEN LET g == (tokens[2] :> tokens[6]) @@ f
         IN IF tokens[8] = "}" THEN Parsed(JObj(g), From(tokens, 9))
            ELSE IF tokens[8] = "," THEN ParseStrMembers(From(tokens, 9), g)
            ELSE ParseFail
    ELSE ParseFail

\* One value at the head of the tokens, and the tokens after it.
ParseValue(tokens) ==
    IF tokens = <<>> THEN ParseFail
    ELSE IF tokens[1] = "null" THEN Parsed(JNull, Tail(tokens))
    ELSE IF tokens[1] \in IntTokens THEN Parsed(JInt(IntOf(tokens[1])), Tail(tokens))
    ELSE IF tokens[1] = "\""
         THEN IF Len(tokens) >= 3 /\ tokens[3] = "\""
              THEN Parsed(JStr(tokens[2]), From(tokens, 4))
              ELSE ParseFail
    ELSE IF tokens[1] = "["
         THEN IF Len(tokens) >= 2 /\ tokens[2] = "]"
              THEN Parsed(JList(<<>>), From(tokens, 3))
              ELSE ParseItems(Tail(tokens), <<>>)
    ELSE IF tokens[1] = "{"
         THEN IF Len(tokens) >= 2 /\ tokens[2] = "}"
              THEN Parsed(JObj(NoKeys), From(tokens, 3))
              ELSE ParseStrMembers(Tail(tokens), NoKeys)
    ELSE ParseFail

\* The members of the outermost object after its "{" or a ",".
RECURSIVE ParseMembers(_, _)
ParseMembers(tokens, f) ==
    IF Len(tokens) >= 5 /\ tokens[1] = "\"" /\ tokens[3] = "\"" /\ tokens[4] = ":"
    THEN LET member == ParseValue(From(tokens, 5))
             g == (tokens[2] :> member.value) @@ f
         IN IF ~member.ok \/ member.rest = <<>> THEN [ParseFail EXCEPT !.value = PyOther(JNull)]
            ELSE IF member.rest[1] = "}" THEN Parsed(PyDict(g), Tail(member.rest))
            ELSE IF member.rest[1] = "," THEN ParseMembers(Tail(member.rest), g)
            ELSE [ParseFail EXCEPT !.value = PyOther(JNull)]
    ELSE [ParseFail EXCEPT !.value = PyOther(JNull)]

\* json.loads(text): the decoded payload, or ok = FALSE for a JSONDecodeError.
json_loads_text(tokens) ==
    LET doc == IF tokens /= <<>> /\ tokens[1] = "{"
               THEN IF Len(tokens) >= 2 /\ tokens[2] = "}"
                    THEN Parsed(PyDict(NoFields), From(tokens, 3))
                    ELSE ParseMembers(Tail(tokens), NoFields)
               ELSE LET x == ParseValue(tokens)
                    IN [ok |-> x.ok, value |-> PyOther(x.value), rest |-> x.rest]
    IN [ok |-> doc.ok /\ doc.rest = <<>>, value |-> doc.value]

(***************************************************************************)
(* The Simulation Store (database.py).  A column value is NULL, an INTEGER *)
(* or a TEXT.                                                              *)
(***************************************************************************)
SqlNull == [t |-> "null", n |-> 0, x |-> <<>>]

SqlInt(i) == [t |-> "int", n |-> i, x |-> <<>>]

SqlText(tokens) == [t |-> "text", n |-> 0, x |-> tokens]

\* A parameter bound as it is: None, an int or a str.
Bind(x) ==
    CASE x.t = "null" -> SqlNull
      [] x.t = "int" -> SqlInt(x.n)
      [] x.t = "str" -> SqlText(<<x.s>>)

\* sqlite3 binds no list and no dict.
Bindable(x) == x.t \in {"null", "int", "str"}

BoundColumns == {"receptivity_score"} \cup TextFields

\* PRAGMA foreign_keys is never set on a connection, and SQLite leaves it off:
\* the FOREIGN KEY clause of persona_responses is declared and not enforced.
foreign_keys == FALSE

\* INSERT INTO simulations: the row create_simulation writes.
simulation_row(message, context_type) ==
    [message |-> message, context_type |-> context_type, created_at |-> now]

\* create_simulation with the check the schema leaves to the request model.
create_simulation_validating(message, context_type) ==
    /\ sim_seq' = sim_seq + 1
    /\ issued' = IF message = "" THEN issued ELSE issued \cup {sim_seq + 1}
    /\ simulations' = IF message = "" THEN simulations
                      ELSE (sim_seq + 1 :> simulation_row(message, context_type))
                           @@ simulations

\* create_simulation on a table whose id is a plain INTEGER PRIMARY KEY: the id
\* is one more than the largest rowid in the table.
create_simulation_rowid(message, context_type) ==
    LET id == IF DOMAIN simulations = {} THEN 1
              ELSE 1 + CHOOSE i \in DOMAIN simulations :
                           \A j \in DOMAIN simulations : j <= i
    IN /\ sim_seq' = sim_seq + 1
       /\ issued' = issued \cup {id}
       /\ simulations' = (id :> simulation_row(message, context_type)) @@ simulations

\* create_simulation: the id is the AUTOINCREMENT sequence's next value.
create_simulation(message, context_type) ==
    /\ sim_seq' = sim_seq + 1
    /\ issued' = issued \cup {sim_seq + 1}
    /\ simulations' = (sim_seq + 1 :> simulation_row(message, context_type)) @@ simulations

\* cursor.lastrowid of the INSERT INTO simulations of this step.
lastrowid ==
    LET inserted == DOMAIN simulations' \ DOMAIN simulations
    IN IF inserted = {} THEN 0 ELSE CHOOSE i \in inserted : TRUE

\* save_persona_response raises: response_data.get on a value that is no dict,
\* a parameter sqlite3 cannot bind, or (were foreign keys on) a missing parent.
save_raises(simulation_id, response_data) ==
    \/ response_data.t /= "dict"
    \/ \E c \in BoundColumns : ~Bindable(Get(response_data.d, c, JNull))
    \/ foreign_keys /\ simulation_id \notin DOMAIN simulations

\* The row of the INSERT INTO persona_responses.
response_row(id, simulation_id, persona_name, response_data) ==
    LET d == response_data.d
    IN [id |-> id,
        simulation_id |-> simulation_id,
        persona_name |-> persona_name,
        receptivity_score |-> Bind(Get(d, "receptivity_score", JNull)),
        initial_reaction |-> Bind(Get(d, "initial_reaction", JNull)),
        emotional_response |-> Bind(Get(d, "emotional_response", JNull)),
        moral_foundations_analysis |->
            SqlText(DumpsValue(Get(d, "moral_foundations_analysis", JObj(NoKeys)))),
        concerns |-> SqlText(DumpsValue(Get(d, "concerns", JList(<<>>)))),
        what_resonates |-> SqlText(DumpsValue(Get(d, "what_resonates", JList(<<>>)))),
        barriers |-> SqlText(DumpsValue(Get(d, "barriers_to_persuasion", JList(<<>>)))),
        trust_factors |-> Bind(Get(d, "trust_factors", JNull)),
        suggested_reframings |->
            SqlText(DumpsValue(Get(d, "suggested_reframings", JList(<<>>)))),
        identity_protective_reasoning |->
            Bind(Get(d, "identity_protective_reasoning", JNull)),
        authentic_voice_response |-> Bind(Get(d, "authentic_voice_response", JNull)),
        raw_response |-> SqlText(json_dumps(response_data))]

\* save_persona_response that writes no row for a record of score 50 with the
\* sentinel analysis.
save_persona_response_dropping(simulation_id, persona_name, response_data) ==
    /\ resp_seq' = resp_seq + 1
    /\ persona_responses' =
           IF Get(response_data.d, "moral_foundations_analysis", JNull) =
                  JObj(AllFoundations(Unable))
           THEN persona_responses
           ELSE persona_responses \cup
                    {response_row(resp_seq + 1, simulation_id, persona_name, response_data)}

\* save_persona_response filling the barriers column from a key barriers.
save_persona_response_unrenamed(simulation_id, persona_name, response_data) ==
    /\ resp_seq' = resp_seq + 1
    /\ persona_responses' = persona_responses \cup
           {[response_row(resp_seq + 1, simulation_id, persona_name, response_data)
                EXCEPT !.barriers =
                    SqlText(DumpsValue(Get(response_data.d, "barriers", JList(<<>>))))]}

\* save_persona_response, when it does not raise.
save_persona_response(simulation_id, persona_name, response_data) ==
    /\ resp_seq' = resp_seq + 1
    /\ persona_responses' = persona_responses \cup
           {response_row(resp_seq + 1, simulation_id, persona_name, response_data)}

\* The rows of one simulation.
responses_of(simulation_id) ==
    {row \in persona_responses : row.simulation_id = simulation_id}

\* The UTF-8 bytes of a persona name.
Utf8(name) ==
    CASE name = "conservative" ->
          <<99, 111, 110, 115, 101, 114, 118, 97, 116, 105, 118, 101>>
      [] name = "libertarian" ->
          <<108, 105, 98, 101, 114, 116, 97, 114, 105, 97, 110>>
      [] name = "moderate" ->
          <<109, 111, 100, 101, 114, 97, 116, 101>>
      [] name = "liberal" ->
          <<108, 105, 98, 101, 114, 97, 108>>
      [] name = "progressive" ->
          <<112, 114, 111, 103, 114, 101, 115, 115, 105, 118, 101>>

\* memcmp with the shorter text first on a tie: the BINARY collation.
RECURSIVE BinaryLess(_, _)
BinaryLess(a, b) ==
    IF a = <<>> THEN b /= <<>>
    ELSE IF b = <<>> THEN FALSE
    ELSE IF a[1] /= b[1] THEN a[1] < b[1]
    ELSE BinaryLess(Tail(a), Tail(b))

\* ORDER BY persona_name; rows of one name come out in rowid order, the order
\* the index scan meets them.
RowBefore(a, b) ==
    \/ BinaryLess(Utf8(a.persona_name), Utf8(b.persona_name))
    \/ a.persona_name = b.persona_name /\ a.id < b.id

\* The SELECT with no ORDER BY: the rows as the index scan meets them.
RECURSIVE order_by_rowid(_)
order_by_rowid(rows) ==
    IF rows = {} THEN <<>>
    ELSE LET first == CHOOSE a \in rows : \A b \in rows : a.id <= b.id
         IN <<first>> \o order_by_rowid(rows \ {first})

RECURSIVE order_by_persona_name(_)
order_by_persona_name(rows) ==
    IF rows = {} THEN <<>>
    ELSE LET first == CHOOSE a \in rows : \A b \in rows \ {a} : RowBefore(a, b)
         IN <<first>> \o order_by_persona_name(rows \ {first})

\* A field of a returned response: the column as stored, or the value decoded
\* from it.
AsStored(column) == [py |-> "column", column |-> column, value |-> PyOther(JNull)]

Decoded(x) == [py |-> "decoded", column |-> SqlNull, value |-> x]

Raises == [py |-> "raise", column |-> SqlNull, value |-> PyOther(JNull)]

\* The fields get_simulation parses.
SerializedColumns ==
    {"moral_foundations_analysis", "concerns", "what_resonates", "barriers",
     "suggested_reframings", "raw_response"}

\* if response.get(field): NULL and the empty text are skipped.
Truthy(column) == column.t = "text" /\ column.x /= <<>>

\* The parse with no except branch.
decode_field_unguarded(column) ==
    IF Truthy(column)
    THEN IF json_loads_text(column.x).ok
         THEN Decoded(json_loads_text(column.x).value)
         ELSE Raises
    ELSE AsStored(column)

\* The read with no parse.
decode_field_skipped(column) == AsStored(column)

\* One turn of the loop over the fields: json.loads, and pass on a
\* JSONDecodeError.
decode_field(column) ==
    IF Truthy(column)
    THEN IF json_loads_text(column.x).ok
         THEN Decoded(json_loads_text(column.x).value)
         ELSE AsStored(column)
    ELSE AsStored(column)

\* dict(row) with the serialized fields parsed.
response_dict(row) ==
    [f \in DOMAIN row |-> IF f \in SerializedColumns THEN decode_field(row[f]) ELSE row[f]]

\* get_simulation: None when the simulations row is missing, else the row with
\* the persona_responses rows of the simulation, ordered and parsed.
get_simulation(simulation_id) ==
    IF simulation_id \notin DOMAIN simulations
    THEN [found |-> FALSE, raised |-> FALSE, simulation_id |-> simulation_id,
          simulation |-> simulation_row("", ""), responses |-> <<>>]
    ELSE LET rows == order_by_persona_name(responses_of(simulation_id))
             responses == [i \in 1..Len(rows) |-> response_dict(rows[i])]
         IN [found |-> TRUE,
             raised |-> \E i \in 1..Len(rows), f \in SerializedColumns :
                            responses[i][f].py = "raise",
             simulation_id |-> simulation_id,
             simulation |-> simulations[simulation_id],
             responses |-> responses]

\* The rows of a LEFT JOIN group whose receptivity_score is not NULL.
Scored(rows) == {row \in rows : row.receptivity_score.t /= "null"}

\* SUM over the scores; a text that spells no number counts as 0.
RECURSIVE SumScores(_)
SumScores(rows) ==
    IF rows = {} THEN 0
    ELSE LET row == CHOOSE row \in rows : TRUE
         IN (IF row.receptivity_score.t = "int" THEN row.receptivity_score.n ELSE 0)
            + SumScores(rows \ {row})

\* A REAL as the quotient num / den, and NULL.
SqlReal(num, den) == [t |-> "real", num |-> num, den |-> den]

NoReal == [t |-> "null", num |-> 0, den |-> 1]

\* AVG that takes a NULL score for 0.
avg_receptivity_coalesced(rows) ==
    IF rows = {} THEN SqlReal(0, 1) ELSE SqlReal(SumScores(rows), Cardinality(rows))

\* AVG(pr.receptivity_score): the NULLs are left out, and the AVG of no value
\* is NULL.
avg_receptivity(rows) ==
    IF Scored(rows) = {} THEN NoReal
    ELSE SqlReal(SumScores(Scored(rows)), Cardinality(Scored(rows)))

\* One row of the GROUP BY s.id: s.* with the two aggregates.
summary(id) ==
    [id |-> id,
     message |-> simulations[id].message,
     context_type |-> simulations[id].context_type,
     created_at |-> simulations[id].created_at,
     response_count |-> Cardinality(responses_of(id)),
     avg_receptivity |-> avg_receptivity(responses_of(id))]

\* ORDER BY s.created_at DESC: every order of the summaries in which no
\* created_at is followed by a later one.  SQL leaves the order of rows with
\* equal created_at open.
created_at_desc ==
    LET summaries == {summary(id) : id \in DOMAIN simulations}
        n == Cardinality(summaries)
    IN {q \in [1..n -> summaries] :
           /\ \A i \in 1..n, j \in 1..n : i /= j => q[i] /= q[j]
           /\ \A i \in 1..n, j \in 1..n : i < j => q[i].created_at >= q[j].created_at}

\* The default limit of get_all_simulations.
DefaultLimit == 50

\* get_all_simulations: what the call can return, LIMIT ? OFFSET ? applied.
get_all_simulations(limit, offset) ==
    {SubSeq(q, offset + 1, IF offset + limit < Len(q) THEN offset + limit ELSE Len(q)) :
        q \in created_at_desc}

\* delete_simulation that leaves the responses to a cascade.
delete_simulation_cascading(simulation_id) ==
    /\ persona_responses' = IF foreign_keys
                            THEN persona_responses \ responses_of(simulation_id)
                            ELSE persona_responses
    /\ simulations' = [i \in DOMAIN simulations \ {simulation_id} |-> simulations[i]]

\* The rows the second SELECT of get_simulation returns, column by column as
\* the loop leaves them.
select_responses(simulation_id) ==
    LET rows == order_by_persona_name(responses_of(simulation_id))
    IN [i \in 1..Len(rows) |-> response_dict(rows[i])]

\* What the other connections see of a table after a statement of a
\* transaction that has not committed: the table as it was.
uncommitted(before, after) == before

\* delete_simulation: both DELETEs in one transaction.
delete_simulation(simulation_id) ==
    /\ persona_responses' = persona_responses \ responses_of(simulation_id)
    /\ simulations' = [i \in DOMAIN simulations \ {simulation_id} |-> simulations[i]]

\* cursor.rowcount > 0 of the DELETE FROM simulations.
delete_rowcount(simulation_id) == IF simulation_id \in DOMAIN simulations THEN 1 ELSE 0

(***************************************************************************)
(* Requests.                                                               *)
(***************************************************************************)
\* The registry (personas/__init__.py).
PERSONAS == {"conservative", "libertarian", "moderate", "liberal", "progressive"}

\* The keys a request names: two of the registry and one unknown to it.
RequestKeys == {"conservative", "liberal", "socialist"}

PersonaLists == SeqsUpTo(RequestKeys, MaxSelected)

\* The personas lists of simulate requests: no valid key, one, two, and a
\* list that names an unknown key and one valid key twice.
RequestLists ==
    {<<"socialist">>, <<"conservative">>, <<"conservative", "liberal">>,
     <<"liberal", "socialist", "liberal">>}

Messages == {"", "Lower taxes now"}

\* The replies the backend gives in a fan-out: an error, prose, a reply that
\* follows the format, one whose score is out of range, and valid JSON that
\* is no object.
BackendReplies ==
    {ApiError, Outcome("text", <<Prose>>), Outcome("text", <<"{ok}">>),
     Outcome("text", <<"{score:150}">>), Outcome("text", <<"[x]">>)}

Requests == 1..NumRequests

Range(q) == {q[i] : i \in 1..Len(q)}

Min(S) == CHOOSE x \in S : \A y \in S : x <= y

NoReplies == [k \in {} |-> ApiError]

NoOut == [k \in {} |-> Returned(PyOther(JNull))]

NoResults == [k \in {} |-> PyOther(JNull)]

NoEntry == [shape |-> "none", persona_name |-> "", response |-> PyOther(JNull),
            parse_error |-> ""]

\* A request not yet received.  pc is the await the coroutine stands at;
\* status is the HTTP status once it has ended.
IdleRequest ==
    [pc |-> "idle", status |-> 0, message |-> "", context_type |-> "general",
     personas |-> <<>>, selected |-> <<>>, simulation_id |-> 0, tasks |-> <<>>,
     replies |-> NoReplies, task_out |-> NoOut, results |-> NoResults,
     saved |-> 0, response_list |-> <<>>]

\* No connection holds a write transaction.
NoTxn == [pc |-> "none", id |-> 0, rows |-> {}]

\* No get_simulation call is open.  before and present are history: the
\* responses the simulation had at the first SELECT, and whether its row was
\* still there at the second.
NoReader ==
    [pc |-> "none", id |-> 0, found |-> FALSE, before |-> {}, present |-> FALSE,
     responses |-> <<>>]

NoCall == [op |-> "none", id |-> 0, ok |-> FALSE, status |-> 0, args |-> <<>>]

NoGen == [pc |-> "unused", outcome |-> ApiError, result |-> Returned(PyOther(JNull)),
          response |-> NoEntry]

\* valid_personas = [p for p in request.personas if p in PERSONAS]
valid_personas(personas) == SelectSeq(personas, LAMBDA p : p \in PERSONAS)

\* The tasks dict with the registry check left out.
RECURSIVE tasks_unfiltered(_, _)
tasks_unfiltered(names, tasks) ==
    IF names = <<>> THEN tasks
    ELSE tasks_unfiltered(Tail(names),
             IF Head(names) \notin Range(tasks)
             THEN Append(tasks, Head(names)) ELSE tasks)

\* The tasks kept as a list: a key named again is appended again.
RECURSIVE tasks_repeated(_, _)
tasks_repeated(names, tasks) ==
    IF names = <<>> THEN tasks
    ELSE tasks_repeated(Tail(names),
             IF Head(names) \in PERSONAS
             THEN Append(tasks, Head(names)) ELSE tasks)

\* The tasks dict of generate_all_persona_responses, as the sequence of its
\* keys: a key assigned again keeps its place.
RECURSIVE tasks_of(_, _)
tasks_of(names, tasks) ==
    IF names = <<>> THEN tasks
    ELSE tasks_of(Tail(names),
             IF Head(names) \in PERSONAS /\ Head(names) \notin Range(tasks)
             THEN Append(tasks, Head(names)) ELSE tasks)

\* A gather that hands the results back last task first.
gather_reversed(tasks, task_out) ==
    [i \in 1..Len(tasks) |-> task_out[tasks[Len(tasks) + 1 - i]].value]

\* asyncio.gather(*tasks.values()): the results in the order of the
\* awaitables, whatever the order the tasks ended in.
gather(tasks, task_out) == [i \in 1..Len(tasks) |-> task_out[tasks[i]].value]

\* for name, response in zip(tasks.keys(), responses): results[name] = response
zip_results(keys, responses) ==
    LET n == IF Len(keys) < Len(responses) THEN Len(keys) ELSE Len(responses)
    IN [k \in {keys[i] : i \in 1..n} |->
           responses[CHOOSE i \in 1..n :
                         keys[i] = k /\ \A j \in 1..n : keys[j] = k => j <= i]]

\* The event loop's thread is inside a synchronous client.messages.create.
LoopBlocked == in_flight /= {}

Started(r) == DOMAIN req[r].task_out \cup {c[2] : c \in {x \in in_flight : x[1] = r}}

Pending(r) == SelectSeq(req[r].tasks, LAMBDA k : k \notin Started(r))

\* simulate_message with create_simulation moved above the persona check.
SimulateRequest_create_first(r, message, personas) ==
    /\ req[r].pc = "idle"
    /\ ~LoopBlocked
    /\ IF message = ""
       THEN /\ req' = [req EXCEPT ![r] = [@ EXCEPT !.pc = "done", !.status = 422,
                                                   !.personas = personas]]
            /\ UNCHANGED <<simulations, sim_seq, issued>>
       ELSE /\ create_simulation(message, req[r].context_type)
            /\ IF valid_personas(personas) = <<>>
               THEN req' = [req EXCEPT ![r] = [@ EXCEPT !.pc = "done", !.status = 400,
                                                        !.message = message,
                                                        !.personas = personas]]
               ELSE req' = [req EXCEPT ![r] = [@ EXCEPT
                               !.pc = "created",
                               !.message = message,
                               !.personas = personas,
                               !.selected = valid_personas(personas),
                               !.simulation_id = lastrowid]]
    /\ UNCHANGED <<gen, persona_responses, resp_seq, in_flight, ret, now, txn, reader>>

\* simulate_message going on to the model calls with no simulation created.
SimulateRequest_no_create(r, message, personas) ==
    /\ req[r].pc = "idle"
    /\ ~LoopBlocked
    /\ IF message = ""
       THEN req' = [req EXCEPT ![r] = [@ EXCEPT !.pc = "done", !.status = 422,
                                                !.personas = personas]]
       ELSE IF valid_personas(personas) = <<>>
       THEN req' = [req EXCEPT ![r] = [@ EXCEPT !.pc = "done", !.status = 400,
                                                !.message = message,
                                                !.personas = personas]]
       ELSE req' = [req EXCEPT ![r] = [@ EXCEPT !.pc = "created",
                                                !.message = message,
                                                !.personas = personas,
                                                !.selected = valid_personas(personas)]]
    /\ UNCHANGED <<gen, simulations, sim_seq, issued, persona_responses, resp_seq,
                   in_flight, ret, now, txn, reader>>

\* simulate_message up to the await of create_simulation.  SimulationRequest
\* rejects an empty message (422) before the handler runs; the handler rejects
\* a request with no valid persona (400).
SimulateRequest(r, message, personas) ==
    /\ req[r].pc = "idle"
    /\ ~LoopBlocked
    /\ IF message = ""
       THEN /\ req' = [req EXCEPT ![r] = [@ EXCEPT !.pc = "done", !.status = 422,
                                                   !.personas = personas]]
            /\ UNCHANGED <<simulations, sim_seq, issued>>
       ELSE IF valid_personas(personas) = <<>>
       THEN /\ req' = [req EXCEPT ![r] = [@ EXCEPT !.pc = "done", !.status = 400,
                                                   !.message = message,
                                                   !.personas = personas]]
            /\ UNCHANGED <<simulations, sim_seq, issued>>
       ELSE /\ create_simulation(message, req[r].context_type)
            /\ req' = [req EXCEPT ![r] = [@ EXCEPT !.pc = "created",
                                                   !.message = message,
                                                   !.personas = personas,
                                                   !.selected = valid_personas(personas),
                                                   !.simulation_id = lastrowid]]
    /\ UNCHANGED <<gen, persona_responses, resp_seq, in_flight, ret, now, txn, reader>>

\* generate_all_persona_responses up to the await of asyncio.gather.
GenerateAll(r) ==
    /\ req[r].pc = "created"
    /\ ~LoopBlocked
    /\ req' = [req EXCEPT ![r] = [@ EXCEPT !.pc = "gather",
                                           !.tasks = tasks_of(req[r].selected, <<>>)]]
    /\ UNCHANGED <<gen, simulations, sim_seq, issued, persona_responses,
                   resp_seq, in_flight, ret, now, txn, reader>>

\* The next task of the gather runs up to client.messages.create: the call is
\* synchronous, so the task starts only when no other call holds the thread.
CallStart(r) ==
    /\ req[r].pc = "gather"
    /\ ~LoopBlocked
    /\ Pending(r) /= <<>>
    /\ in_flight' = in_flight \cup {<<r, Head(Pending(r))>>}
    /\ UNCHANGED <<gen, simulations, sim_seq, issued, persona_responses,
                   resp_seq, req, ret, now, txn, reader>>

\* The call returns or raises, and the task ends with what
\* generate_persona_response makes of it.
CallReturn(r, outcome) ==
    /\ \E c \in in_flight :
          /\ c[1] = r
          /\ in_flight' = in_flight \ {c}
          /\ req' = [req EXCEPT ![r] = [@ EXCEPT
                        !.replies = (c[2] :> outcome) @@ @,
                        !.task_out = (c[2] :> generate_persona_response(outcome)) @@ @]]
    /\ UNCHANGED <<gen, simulations, sim_seq, issued, persona_responses,
                   resp_seq, ret, now, txn, reader>>

\* asyncio.gather returns once every task has ended: the mapping is zipped
\* from the keys and the responses, or the first exception propagates.
GatherReturn(r) ==
    /\ req[r].pc = "gather"
    /\ ~LoopBlocked
    /\ DOMAIN req[r].task_out = Range(req[r].tasks)
    /\ IF \E k \in DOMAIN req[r].task_out : req[r].task_out[k].kind = "raise"
       THEN req' = [req EXCEPT ![r] = [@ EXCEPT !.pc = "raised", !.status = 500,
                                                !.task_out = NoOut]]
       ELSE req' = [req EXCEPT ![r] = [@ EXCEPT
                        !.pc = "save",
                        !.results = zip_results(req[r].tasks,
                                                gather(req[r].tasks, req[r].task_out)),
                        !.task_out = NoOut]]
    /\ UNCHANGED <<gen, simulations, sim_seq, issued, persona_responses,
                   resp_seq, in_flight, ret, now, txn, reader>>

\* One turn of the loop over responses.items(): save_persona_response, then
\* the typed construction; after the last turn the handler returns.
SaveResponse(r) ==
    /\ req[r].pc = "save"
    /\ req[r].simulation_id > 0
    /\ ~LoopBlocked
    /\ LET persona_name == req[r].tasks[req[r].saved + 1]
           response_data == req[r].results[persona_name]
       IN IF req[r].saved = Len(req[r].tasks)
          THEN /\ req' = [req EXCEPT ![r] = [@ EXCEPT !.pc = "done", !.status = 200]]
               /\ UNCHANGED <<persona_responses, resp_seq>>
          ELSE IF save_raises(req[r].simulation_id, response_data)
          THEN /\ req' = [req EXCEPT ![r] = [@ EXCEPT !.pc = "done", !.status = 500]]
               /\ UNCHANGED <<persona_responses, resp_seq>>
          ELSE /\ save_persona_response(req[r].simulation_id, persona_name, response_data)
               /\ req' = [req EXCEPT ![r] = [@ EXCEPT
                             !.saved = @ + 1,
                             !.response_list =
                                 Append(@, response_entry(persona_name, response_data))]]
    /\ UNCHANGED <<gen, simulations, sim_seq, issued, in_flight, ret, now, txn, reader>>

\* delete_simulation_endpoint: 404 when delete_simulation returns False.
DeleteEndpoint(id) ==
    /\ ~LoopBlocked
    /\ delete_simulation(id)
    /\ ret' = [op |-> "delete", id |-> id, ok |-> delete_rowcount(id) > 0,
               status |-> IF delete_rowcount(id) > 0 THEN 200 ELSE 404, args |-> <<id>>]
    /\ UNCHANGED <<gen, sim_seq, issued, resp_seq, req, in_flight, now, txn, reader>>

\* The ids a delete request names: every id handed out, and the next one.
KnownIds == 1..(sim_seq + 1)

Init ==
    /\ gen = NoGen
    /\ simulations = [i \in {} |-> simulation_row("", "general")]
    /\ sim_seq = 0
    /\ persona_responses = {}
    /\ resp_seq = 0
    /\ req = [r \in Requests |-> IdleRequest]
    /\ in_flight = {}
    /\ ret = NoCall
    /\ txn = NoTxn
    /\ reader = NoReader
    /\ now = 0
    /\ issued = {}

Next ==
    \/ \E r \in Requests, message \in Messages, personas \in RequestLists :
          SimulateRequest(r, message, personas)
    \/ \E r \in Requests : GenerateAll(r)
    \/ \E r \in Requests : CallStart(r)
    \/ \E r \in Requests, outcome \in BackendReplies : CallReturn(r, outcome)
    \/ \E r \in Requests : GatherReturn(r)
    \/ \E r \in Requests : SaveResponse(r)
    \/ \E id \in KnownIds : DeleteEndpoint(id)

Spec == Init /\ [][Next]_vars

(***************************************************************************)
(* SpecGen: generate_persona_response on every outcome of the model call,  *)
(* and the typed construction on what it returns.                          *)
(***************************************************************************)
InitGen ==
    /\ gen \in {[pc |-> "ready", outcome |-> o, result |-> NoGen.result,
                 response |-> NoEntry] : o \in Outcomes}
    /\ simulations = [i \in {} |-> simulation_row("", "general")]
    /\ sim_seq = 0
    /\ persona_responses = {}
    /\ resp_seq = 0
    /\ req = [r \in Requests |-> IdleRequest]
    /\ in_flight = {}
    /\ ret = NoCall
    /\ txn = NoTxn
    /\ reader = NoReader
    /\ now = 0
    /\ issued = {}

GenCall ==
    /\ gen.pc = "ready"
    /\ LET result == generate_persona_response(gen.outcome)
       IN gen' = [gen EXCEPT !.result = result,
                             !.pc = IF result.kind = "raise" THEN "raised" ELSE "returned"]
    /\ UNCHANGED <<simulations, sim_seq, issued, persona_responses, resp_seq,
                   req, in_flight, ret, now, txn, reader>>

GenBuild ==
    /\ gen.pc = "returned"
    /\ gen' = [gen EXCEPT !.pc = "built",
                          !.response = response_entry("conservative", gen.result.value)]
    /\ UNCHANGED <<simulations, sim_seq, issued, persona_responses, resp_seq,
                   req, in_flight, ret, now, txn, reader>>

NextGen == GenCall \/ GenBuild

SpecGen == InitGen /\ [][NextGen]_vars

(***************************************************************************)
(* SpecFanout: generate_all_persona_responses called with every bounded    *)
(* list of selected names, unknown names included.                         *)
(***************************************************************************)
InitFanout ==
    /\ gen = NoGen
    /\ simulations = [i \in {} |-> simulation_row("", "general")]
    /\ sim_seq = 0
    /\ persona_responses = {}
    /\ resp_seq = 0
    /\ \E names \in PersonaLists :
          req = [r \in Requests |->
                    IF r = Min(Requests)
                    THEN [IdleRequest EXCEPT !.pc = "created",
                                             !.message = "Lower taxes now",
                                             !.personas = names,
                                             !.selected = names]
                    ELSE IdleRequest]
    /\ in_flight = {}
    /\ ret = NoCall
    /\ txn = NoTxn
    /\ reader = NoReader
    /\ now = 0
    /\ issued = {}

NextFanout ==
    \/ \E r \in Requests : GenerateAll(r)
    \/ \E r \in Requests : CallStart(r)
    \/ \E r \in Requests, outcome \in BackendReplies : CallReturn(r, outcome)
    \/ \E r \in Requests : GatherReturn(r)

SpecFanout == InitFanout /\ [][NextFanout]_vars

(***************************************************************************)
(* SpecStore: the functions of database.py called directly.  A response is *)
(* saved under an id create_simulation has returned (main.py passes no     *)
(* other), whether or not that simulation has been deleted since.          *)
(***************************************************************************)
ContextTypes == {"general", "tweet"}

\* An object with the lists and no score.
DocNoScore ==
    PyDict([concerns |-> JList(<<"a", "b">>), what_resonates |-> JList(<<>>),
            suggested_reframings |-> JList(<<"s2", "s1">>)])

\* The records saved: replies that follow the format or leave fields out, a
\* degraded record, an object with a list for a text, and a list.
StoreRecords ==
    {DocOk, DocPartial, DocNoScore, ParseErrorRecord, DocTextIsList, DocNotObject}

StoreNames == {"conservative", "liberal", "libertarian"}

StoreCreate(message, context_type) ==
    /\ sim_seq + resp_seq < MaxStoreCalls
    /\ create_simulation(message, context_type)
    /\ ret' = [op |-> "create", id |-> lastrowid, ok |-> lastrowid > 0, status |-> 0,
               args |-> <<message, context_type>>]
    /\ UNCHANGED <<gen, persona_responses, resp_seq, req, in_flight, now, txn, reader>>

StoreSave(simulation_id, persona_name, response_data) ==
    /\ sim_seq + resp_seq < MaxStoreCalls
    /\ IF save_raises(simulation_id, response_data)
       THEN /\ ret' = [op |-> "save", id |-> 0, ok |-> FALSE, status |-> 0,
                            args |-> <<simulation_id, persona_name, response_data>>]
            /\ UNCHANGED <<persona_responses, resp_seq>>
       ELSE /\ save_persona_response(simulation_id, persona_name, response_data)
            /\ ret' = [op |-> "save", id |-> resp_seq + 1, ok |-> TRUE, status |-> 0,
                            args |-> <<simulation_id, persona_name, response_data>>]
    /\ UNCHANGED <<gen, simulations, sim_seq, issued, req, in_flight, now, txn, reader>>

StoreDelete(id) ==
    /\ delete_simulation(id)
    /\ ret' = [op |-> "delete", id |-> id, ok |-> delete_rowcount(id) > 0, status |-> 0,
               args |-> <<id>>]
    /\ UNCHANGED <<gen, sim_seq, issued, resp_seq, req, in_flight, now, txn, reader>>

\* delete_simulation, statement by statement.  Python's sqlite3 opens the
\* transaction before the first DELETE; nothing is visible to the other
\* connections until the commit.
DeleteResponses(id) ==
    /\ txn.pc = "none"
    /\ txn' = [pc |-> "responses", id |-> id, rows |-> responses_of(id)]
    /\ persona_responses' =
           uncommitted(persona_responses, persona_responses \ responses_of(id))
    /\ UNCHANGED <<gen, simulations, sim_seq, issued, resp_seq, req, in_flight,
                   ret, now, reader>>

DeleteSimulationRow ==
    /\ txn.pc = "responses"
    /\ txn' = [txn EXCEPT !.pc = "simulation"]
    /\ simulations' =
           uncommitted(simulations,
                       [i \in DOMAIN simulations \ {txn.id} |-> simulations[i]])
    /\ UNCHANGED <<gen, sim_seq, issued, persona_responses, resp_seq, req,
                   in_flight, ret, now, reader>>

DeleteCommit ==
    /\ txn.pc = "simulation"
    /\ delete_simulation(txn.id)
    /\ ret' = [op |-> "delete", id |-> txn.id, ok |-> delete_rowcount(txn.id) > 0,
               status |-> 0, args |-> <<txn.id>>]
    /\ txn' = NoTxn
    /\ UNCHANGED <<gen, sim_seq, issued, resp_seq, req, in_flight, now, reader>>

\* get_simulation, statement by statement: each SELECT is a read of its own,
\* and other connections may commit between the two.
GetSelectSimulation(id) ==
    /\ reader.pc \in {"none", "returned"}
    /\ reader' = IF id \in DOMAIN simulations
                 THEN [pc |-> "simulation", id |-> id, found |-> TRUE,
                       before |-> responses_of(id), present |-> FALSE,
                       responses |-> <<>>]
                 ELSE [pc |-> "returned", id |-> id, found |-> FALSE,
                       before |-> {}, present |-> FALSE, responses |-> <<>>]
    /\ UNCHANGED <<gen, simulations, sim_seq, issued, persona_responses, resp_seq,
                   req, in_flight, ret, now, txn>>

GetSelectResponses ==
    /\ reader.pc = "simulation"
    /\ reader' = [reader EXCEPT !.pc = "returned",
                                !.present = reader.id \in DOMAIN simulations,
                                !.responses = select_responses(reader.id)]
    /\ UNCHANGED <<gen, simulations, sim_seq, issued, persona_responses, resp_seq,
                   req, in_flight, ret, now, txn>>

TxnRecords == {DocOk, ParseErrorRecord}
TxnNames == {"conservative", "liberal"}

\* A writer waits while another connection holds the write transaction.
NextTxn ==
    \/ /\ txn.pc = "none"
       /\ StoreCreate("Lower taxes now", "general")
    \/ /\ txn.pc = "none"
       /\ \E simulation_id \in 1..sim_seq, persona_name \in TxnNames,
             response_data \in TxnRecords :
             StoreSave(simulation_id, persona_name, response_data)
    \/ \E id \in KnownIds : DeleteResponses(id)
    \/ DeleteSimulationRow
    \/ DeleteCommit
    \/ \E id \in KnownIds : GetSelectSimulation(id)
    \/ GetSelectResponses

SpecTxn == Init /\ [][NextTxn]_vars

\* A second passes.
Tick ==
    /\ now < MaxClock
    /\ now' = now + 1
    /\ UNCHANGED <<gen, simulations, sim_seq, issued, persona_responses,
                   resp_seq, req, in_flight, ret, txn, reader>>

NextStore ==
    \/ \E message \in Messages, context_type \in ContextTypes :
          StoreCreate(message, context_type)
    \/ \E simulation_id \in 1..sim_seq, persona_name \in StoreNames,
          response_data \in StoreRecords :
          StoreSave(simulation_id, persona_name, response_data)
    \/ \E id \in KnownIds : StoreDelete(id)
    \/ Tick

SpecStore == Init /\ [][NextStore]_vars

(***************************************************************************)
(* SpecRead: get_simulation on a store whose serialized columns were        *)
(* written by something else than save_persona_response: one simulation    *)
(* with two responses, one column of each holding any of StoredTexts.      *)
(***************************************************************************)
\* Texts that are no JSON document (cut short, a bare word, a document and
\* more), the empty text, and two documents.
StoredTexts ==
    {<<"[", "\"", "c1">>, <<"oops">>, <<"[", "\"", "c1", "\"", "]", "]">>, <<>>,
     <<"[", "]">>, <<"null">>}

StoredRow(id, persona_name, column, text) ==
    [response_row(id, 1, persona_name, DocOk) EXCEPT ![column] = SqlText(text)]

InitRead ==
    /\ gen = NoGen
    /\ now = 0
    /\ simulations = (1 :> simulation_row("Lower taxes now", "general"))
    /\ sim_seq = 1
    /\ issued = {1}
    /\ \E c1 \in SerializedColumns, c2 \in SerializedColumns,
          t1 \in StoredTexts, t2 \in StoredTexts :
          persona_responses =
              {StoredRow(1, "liberal", c1, t1), StoredRow(2, "conservative", c2, t2)}
    /\ resp_seq = 2
    /\ req = [r \in Requests |-> IdleRequest]
    /\ in_flight = {}
    /\ ret = NoCall
    /\ txn = NoTxn
    /\ reader = NoReader

\* get_simulation called directly: ok when it returned a simulation.
ReadGet(id) ==
    /\ ret.op = "none"
    /\ ret' = [op |-> "get", id |-> id,
               ok |-> get_simulation(id).found /\ ~get_simulation(id).raised,
               status |-> 0, args |-> <<id>>]
    /\ UNCHANGED <<gen, simulations, sim_seq, issued, persona_responses,
                   resp_seq, req, in_flight, now, txn, reader>>

NextRead == \E id \in KnownIds : ReadGet(id)

SpecRead == InitRead /\ [][NextRead]_vars

(***************************************************************************)
(* Properties.                                                             *)
(***************************************************************************)
ValidKeys(names) == Range(names) \cap PERSONAS

Names(list) == {list[i].persona_name : i \in 1..Len(list)}

\* The model call failed, or its text does not decode after fence stripping.
Degraded(outcome) ==
    outcome.kind /= "text" \/ ~Decodable(response_text(outcome.lines))

\* C1: generate_all_persona_responses returns a mapping whose keys are exactly
\* the selected names that are in the registry, each generated by one call:
\* one record per valid key and no entry for an unknown key.
C1_ExactlyTheValidKeys ==
    \A r \in Requests :
        req[r].pc = "save" =>
            /\ DOMAIN req[r].results = ValidKeys(req[r].selected)
            /\ DOMAIN req[r].replies = ValidKeys(req[r].selected)
            /\ Len(req[r].tasks) = Cardinality(ValidKeys(req[r].selected))

C1_Witness ==
    \E r \in Requests :
        /\ req[r].pc = "save"
        /\ req[r].selected = <<"socialist", "conservative">>
        /\ DOMAIN req[r].results = {"conservative"}

\* C2: generate_persona_response never raises: whatever the model call does
\* (backend error, no content, undecodable text, decodable text), the call
\* ends by returning a record.
C2_NeverRaises ==
    gen.pc /= "ready" => gen.pc /= "raised" /\ gen.result.kind = "return"

C2_Witness ==
    /\ gen.pc = "returned"
    /\ gen.outcome = NoContent
    /\ gen.result.kind = "return"

\* C3: when the call fails or the text does not decode after fence stripping,
\* the record returned is the degraded one: score 50, the six foundations at
\* the sentinel, a first concern naming the failure kind, and empty
\* what_resonates and suggested_reframings.
C3_DegradedRecord ==
    (gen.pc \in {"returned", "built"} /\ Degraded(gen.outcome)) =>
        /\ gen.result.value.t = "dict"
        /\ LET d == gen.result.value.d
           IN /\ DOMAIN d = ResponseFields
              /\ d["receptivity_score"] = JInt(50)
              /\ d["moral_foundations_analysis"] = JObj([k \in FoundationKeys |-> Unable])
              /\ Len(d["concerns"].l) >= 1
              /\ d["concerns"].l[1] =
                     (IF gen.outcome.kind = "text" THEN "Response parsing failed"
                      ELSE IF gen.outcome.kind = "api_error"
                      THEN "API error: backend unavailable"
                      ELSE "API error: list index out of range")
              /\ d["what_resonates"] = JList(<<>>)
              /\ d["suggested_reframings"] = JList(<<>>)

C3_Witness ==
    /\ gen.pc = "returned"
    /\ gen.outcome = Outcome("text", <<FenceJson, Prose, Fence>>)
    /\ gen.result.value.d["concerns"] = JList(<<"Response parsing failed">>)

\* The fields of a record, the six foundations counted one by one.
LeafCount(d) ==
    Cardinality(DOMAIN d \ {"moral_foundations_analysis"})
    + (IF "moral_foundations_analysis" \in DOMAIN d
       THEN Cardinality(DOMAIN d["moral_foundations_analysis"].o) ELSE 0)

WellTyped(d) ==
    /\ d["receptivity_score"].t = "int"
    /\ d["moral_foundations_analysis"].t = "dict"
    /\ DOMAIN d["moral_foundations_analysis"].o = FoundationKeys
    /\ \A f \in TextFields : d[f].t = "str"
    /\ \A f \in ListFields : d[f].t = "list"

\* C4 as stated: a degraded record carries exactly 13 fields (counted at the
\* top level or leaf by leaf), with the schema's types, and the typed
\* construction succeeds on it.
C4_ThirteenFields ==
    (gen.pc = "built" /\ Degraded(gen.outcome)) =>
        /\ gen.result.value.t = "dict"
        /\ \/ Cardinality(DOMAIN gen.result.value.d) = 13
           \/ LeafCount(gen.result.value.d) = 13
        /\ WellTyped(gen.result.value.d)
        /\ gen.response.shape = "typed"

\* C4, amended: a degraded record (decode failure or call failure) carries
\* exactly the 11 fields of PersonaResponse, moral_foundations_analysis holding
\* the six foundation keys, with the schema's types; the typed construction of
\* simulate_message succeeds on it and never yields the fallback shape.
C4_SchemaCompatible ==
    (gen.pc = "built" /\ Degraded(gen.outcome)) =>
        /\ gen.result.value.t = "dict"
        /\ DOMAIN gen.result.value.d = ResponseFields
        /\ Cardinality(DOMAIN gen.result.value.d) = 11
        /\ WellTyped(gen.result.value.d)
        /\ gen.response.shape = "typed"
        /\ gen.response.response = gen.result.value

C4_Witness ==
    /\ gen.pc = "built"
    /\ gen.outcome = ApiError
    /\ gen.response.shape = "typed"

\* C5: a simulate request with a non-empty message and a valid persona always
\* completes with one entry per distinct valid persona, whatever the backend
\* gives; it never ends in a request-level failure.
C5_AlwaysAnswers ==
    \A r \in Requests :
        (req[r].message /= "" /\ ValidKeys(req[r].personas) /= {}) =>
            /\ req[r].status \in {0, 200}
            /\ req[r].status = 200 =>
                   Names(req[r].response_list) = ValidKeys(req[r].personas)

\* The calls of a fan-out are serialized: no two are ever in flight.
AtMostOneInFlight == Cardinality(in_flight) <= 1

\* C6: the calls of a fan-out over two or more personas are not serialized:
\* while one call is in flight, the next task can start its own, so that two
\* calls are in flight at the same time.
C6_CallsOverlap ==
    \A r \in Requests :
        (/\ req[r].pc = "gather"
         /\ \E c \in in_flight : c[1] = r
         /\ Pending(r) /= <<>>) => ENABLED CallStart(r)

\* The record each reply of BackendReplies is to give.
ExpectedRecord(outcome) ==
    IF outcome = ApiError THEN ApiErrorRecord(BackendDown)
    ELSE IF outcome = Outcome("text", <<"{ok}">>) THEN DocOk
    ELSE IF outcome = Outcome("text", <<"{score:150}">>) THEN DocScoreHigh
    ELSE IF outcome = Outcome("text", <<"[x]">>) THEN DocNotObject
    ELSE ParseErrorRecord

\* C7: a failure of one persona's generation changes nothing for the others:
\* the fan-out returns, and every selected valid persona is in the mapping
\* with the record its own reply gives.
C7_FailureIsolated ==
    \A r \in Requests :
        /\ req[r].pc /= "raised"
        /\ req[r].pc = "save" =>
               \A k \in ValidKeys(req[r].selected) :
                   /\ k \in DOMAIN req[r].results
                   /\ req[r].results[k] = ExpectedRecord(req[r].replies[k])

C7_Witness ==
    \E r \in Requests :
        /\ req[r].pc = "save"
        /\ DOMAIN req[r].replies = {"conservative", "liberal"}
        /\ req[r].replies["conservative"] = ApiError
        /\ req[r].replies["liberal"] = Outcome("text", <<"{ok}">>)
        /\ req[r].results["liberal"] = DocOk

\* C8 as stated: create_simulation with an empty message fails and inserts no
\* row; with a non-empty message it inserts one row and returns its id.
C8_EmptyMessageRejected ==
    [][\A message \in Messages, context_type \in ContextTypes :
          StoreCreate(message, context_type) =>
              IF message = ""
              THEN ~ret'.ok /\ simulations' = simulations
              ELSE /\ ret'.ok
                   /\ DOMAIN simulations' = DOMAIN simulations \cup {ret'.id}]_vars

\* C8, amended: create_simulation does not validate the message: called with
\* any message, the empty one included, it inserts exactly one row, with that
\* message, and returns the new row's id.
C8_AlwaysInserts ==
    [][\A message \in Messages, context_type \in ContextTypes :
          StoreCreate(message, context_type) =>
              /\ ret'.ok
              /\ ret'.id \notin DOMAIN simulations
              /\ DOMAIN simulations' = DOMAIN simulations \cup {ret'.id}
              /\ simulations'[ret'.id] = simulation_row(message, context_type)
              /\ \A i \in DOMAIN simulations : simulations'[i] = simulations[i]]_vars

C8_Witness ==
    /\ ret.op = "create"
    /\ ret.ok
    /\ ret.id \in DOMAIN simulations
    /\ simulations[ret.id].message = ""

\* C9: every persona_responses row refers to an existing simulations row, in
\* every reachable state, under any interleaving of simulate and delete
\* requests.
C9_ResponsesHaveSimulation ==
    \A row \in persona_responses : row.simulation_id \in DOMAIN simulations

\* C10: delete_simulation(id) returns true exactly when a simulations row
\* with that id existed, and false when none did; right after it, no
\* simulations row and no persona_responses row of that id remains, and
\* get_simulation(id) returns absent.
C10_DeleteRemoves ==
    [][\A id \in 1..(NumRequests + 1) :
          DeleteEndpoint(id) =>
              /\ ret'.op = "delete" /\ ret'.id = id
              /\ ret'.ok = (id \in DOMAIN simulations)
              /\ ret'.status = (IF id \in DOMAIN simulations THEN 200 ELSE 404)
              /\ id \notin DOMAIN simulations'
              /\ \A row \in persona_responses' : row.simulation_id /= id
              /\ ~get_simulation(id)'.found]_vars

C10_Witness ==
    /\ ret.op = "delete"
    /\ ret.ok
    /\ ret.id \notin DOMAIN simulations
    /\ responses_of(ret.id) = {}
    /\ \E r \in Requests : req[r].simulation_id = ret.id /\ req[r].saved >= 1

\* C11: simulation ids are unique and never reused: over any sequence of
\* create_simulation and delete_simulation calls, each create returns an id
\* strictly greater than every id an earlier create returned, the ids of
\* simulations deleted since included.
C11_IdsNeverReused ==
    [][\A message \in Messages, context_type \in ContextTypes :
          StoreCreate(message, context_type) =>
              /\ ret'.ok
              /\ \A i \in issued : ret'.id > i
              /\ issued' = issued \cup {ret'.id}]_vars

C11_Witness ==
    /\ ret.op = "create"
    /\ ret.id = Cardinality(issued)
    /\ \E i \in issued : i < ret.id /\ i \notin DOMAIN simulations

\* The serialized list columns the round trip is stated for; each is named as
\* its record field.
RoundTripFields == {"concerns", "what_resonates", "suggested_reframings"}

HasLists(response_data) ==
    /\ response_data.t = "dict"
    /\ \A f \in RoundTripFields :
           f \in DOMAIN response_data.d /\ response_data.d[f].t = "list"

\* The response of row id in what get_simulation returns, as a one-element or
\* empty set.
ReadBack(simulation_id, id) ==
    LET g == get_simulation(simulation_id)
    IN IF g.found /\ ~g.raised
       THEN {g.responses[i] : i \in {j \in 1..Len(g.responses) : g.responses[j].id = id}}
       ELSE {}

\* C12: list-valued fields round-trip through the store: for a record whose
\* concerns, what_resonates and suggested_reframings are lists of strings,
\* save_persona_response followed by get_simulation returns each of them as a
\* list equal to the saved one, same elements in the same order.
C12_ListsRoundTrip ==
    (/\ ret.op = "save"
     /\ ret.ok
     /\ HasLists(ret.args[3])
     /\ ret.args[1] \in DOMAIN simulations) =>
        /\ ReadBack(ret.args[1], ret.id) /= {}
        /\ \A response \in ReadBack(ret.args[1], ret.id) :
               \A f \in RoundTripFields :
                   response[f] = Decoded(PyOther(ret.args[3].d[f]))

C12_Witness ==
    /\ ret.op = "save"
    /\ ret.ok
    /\ \E row \in persona_responses :
          /\ row.id = ret.id
          /\ \E response \in ReadBack(row.simulation_id, row.id) :
                /\ response.concerns = Decoded(PyOther(JList(<<"a", "b">>)))
                /\ response.suggested_reframings = Decoded(PyOther(JList(<<"s2", "s1">>)))
                /\ response.what_resonates = Decoded(PyOther(JList(<<>>)))

\* C13: save_persona_response always stores the full original record in
\* raw_response, whether or not the typed fields are present or well-formed in
\* it, and get_simulation returns a raw_response equal to the record saved.
C13_RawResponseAlwaysStored ==
    (/\ ret.op = "save"
     /\ ret.args[3].t = "dict"
     /\ ret.args[1] \in DOMAIN simulations) =>
        /\ ret.ok
        /\ ReadBack(ret.args[1], ret.id) /= {}
        /\ \A response \in ReadBack(ret.args[1], ret.id) :
               response.raw_response = Decoded(ret.args[3])

\* The stored row a returned response was made from.
RowOf(response) == CHOOSE row \in persona_responses : row.id = response.id

\* The stored text of a column cannot be deserialized.
Corrupt(column) == Truthy(column) /\ ~json_loads_text(column.x).ok

\* C14: get_simulation never fails because a stored serialized field is
\* corrupt: for each of the six serialized fields, a stored text that cannot
\* be deserialized is returned as the stored text unchanged, and the other
\* fields and the other responses of the simulation are returned normally.
C14_CorruptFieldKept ==
    (ret.op = "get" /\ ret.id \in DOMAIN simulations) =>
        /\ ret.ok
        /\ LET g == get_simulation(ret.id)
           IN /\ {g.responses[i].id : i \in 1..Len(g.responses)} =
                     {row.id : row \in responses_of(ret.id)}
              /\ \A i \in 1..Len(g.responses) :
                     LET response == g.responses[i]
                         row == RowOf(response)
                     IN /\ DOMAIN response = DOMAIN row
                        /\ \A f \in DOMAIN row \ SerializedColumns : response[f] = row[f]
                        /\ \A f \in SerializedColumns :
                               response[f] =
                                   (IF Corrupt(row[f]) \/ ~Truthy(row[f])
                                    THEN AsStored(row[f])
                                    ELSE Decoded(json_loads_text(row[f].x).value))

C14_Witness ==
    /\ ret.op = "get"
    /\ ret.ok
    /\ LET g == get_simulation(ret.id)
       IN /\ Len(g.responses) = 2
          /\ g.responses[1].raw_response = AsStored(SqlText(<<"oops">>))
          /\ g.responses[1].concerns = Decoded(PyOther(JList(<<"c1", "c2">>)))
          /\ g.responses[2].concerns = AsStored(SqlText(<<"[", "\"", "c1">>))
          /\ g.responses[2].raw_response = Decoded(DocOk)

\* C15: create_simulation followed immediately by get_simulation on the
\* returned id returns the simulation with an empty response list, and
\* get_simulation on an id that has no simulations row returns absent.
C15_CreateThenGet ==
    /\ (ret.op = "create" /\ ret.ok) =>
           LET g == get_simulation(ret.id)
           IN /\ g.found /\ ~g.raised
              /\ g.simulation.message = ret.args[1]
              /\ g.simulation.context_type = ret.args[2]
              /\ g.responses = <<>>
    /\ \A id \in KnownIds : id \notin DOMAIN simulations => ~get_simulation(id).found

C15_Witness ==
    /\ ret.op = "create"
    /\ ret.ok
    /\ get_simulation(ret.id).found
    /\ get_simulation(ret.id).responses = <<>>
    /\ \E row \in persona_responses :
          /\ row.simulation_id \notin DOMAIN simulations
          /\ ~get_simulation(row.simulation_id).found

\* The registry's keys in dictionary order.
Lexicographic == <<"conservative", "liberal", "libertarian", "moderate", "progressive">>

Rank(persona_name) == CHOOSE i \in 1..Len(Lexicographic) : Lexicographic[i] = persona_name

\* C16: get_simulation returns the responses of a simulation ordered
\* lexicographically by persona_name, whatever the order they were saved in.
C16_OrderedByPersonaName ==
    \A id \in DOMAIN simulations :
        LET responses == get_simulation(id).responses
        IN /\ {responses[i].id : i \in 1..Len(responses)} =
                  {row.id : row \in responses_of(id)}
           /\ Len(responses) = Cardinality(responses_of(id))
           /\ \A i \in 1..Len(responses), j \in 1..Len(responses) :
                  i < j => Rank(responses[i].persona_name) <= Rank(responses[j].persona_name)

C16_Witness ==
    \E id \in DOMAIN simulations :
        LET responses == get_simulation(id).responses
        IN /\ Len(responses) = 2
           /\ responses[1].persona_name = "liberal"
           /\ responses[2].persona_name = "libertarian"
           /\ responses[1].id > responses[2].id

Limits == {1, DefaultLimit}

Offsets == {0, 1}

\* C17: each summary of get_all_simulations has response_count equal to the
\* number of persona_responses rows of its simulation and avg_receptivity
\* equal to the average of the non-null scores of those rows; a simulation
\* with no responses has response_count 0 and a null avg_receptivity.
C17_SummaryAggregates ==
    \A limit \in Limits, offset \in Offsets :
        \A result \in get_all_simulations(limit, offset) :
            \A i \in 1..Len(result) :
                LET rows == {row \in persona_responses : row.simulation_id = result[i].id}
                    scores == {row \in rows : row.receptivity_score /= SqlNull}
                    avg == result[i].avg_receptivity
                IN /\ result[i].id \in DOMAIN simulations
                   /\ result[i].response_count = Cardinality(rows)
                   /\ IF scores = {} THEN avg.t = "null"
                      ELSE /\ avg.t = "real"
                           /\ avg.num * Cardinality(scores) = SumScores(scores) * avg.den
                   /\ rows = {} => result[i].response_count = 0 /\ avg.t = "null"

C17_Witness ==
    \E result \in get_all_simulations(DefaultLimit, 0) :
        \E i \in 1..Len(result) :
            /\ result[i].response_count = 2
            /\ \E row \in responses_of(result[i].id) : row.receptivity_score = SqlNull
            /\ result[i].avg_receptivity = SqlReal(80, 1)

\* C18: get_all_simulations returns the summaries newest first: of any two
\* simulations in the returned sequence, the one created later (the one with
\* the greater id) comes first, also when both were created within the same
\* second.
C18_NewestFirst ==
    \A limit \in Limits, offset \in Offsets :
        \A result \in get_all_simulations(limit, offset) :
            \A i \in 1..Len(result), j \in 1..Len(result) :
                i < j => result[i].id > result[j].id

\* The request ended with a validation error.
Rejected(request) == request.status \in {400, 422}

\* C19: a request rejected with a validation error persists nothing: a
\* simulate request with an empty message or with no valid persona key
\* creates no simulations row and no persona_responses row, and makes no
\* model call, in the step that rejects it and ever after.
C19_RejectedPersistsNothing ==
    /\ [][\A r \in Requests, message \in Messages, personas \in RequestLists :
            (/\ SimulateRequest(r, message, personas)
             /\ message = "" \/ ValidKeys(personas) = {}) =>
                /\ Rejected(req'[r])
                /\ req'[r].pc = "done"
                /\ simulations' = simulations
                /\ sim_seq' = sim_seq
                /\ persona_responses' = persona_responses
                /\ resp_seq' = resp_seq
                /\ in_flight' = in_flight]_vars
    /\ [](\A r \in Requests :
            Rejected(req[r]) =>
                /\ req[r].pc = "done"
                /\ req[r].message = "" \/ ValidKeys(req[r].personas) = {}
                /\ req[r].simulation_id = 0
                /\ req[r].tasks = <<>>
                /\ req[r].replies = NoReplies
                /\ req[r].saved = 0
                /\ \A c \in in_flight : c[1] /= r)

C19_Witness ==
    \E r \in Requests :
        /\ req[r].status = 400
        /\ req[r].message /= ""
        /\ req[r].personas = <<"socialist">>
        /\ sim_seq = 0
        /\ persona_responses = {}

\* The table holds a row of the simulation for the persona, with the degraded
\* record's score 50, sentinel analysis and failure concern.
DegradedRowStored(rows, simulation_id, persona_name, outcome) ==
    \E row \in rows :
        /\ row.simulation_id = simulation_id
        /\ row.persona_name = persona_name
        /\ row.receptivity_score = SqlInt(50)
        /\ row.moral_foundations_analysis =
               SqlText(DumpsValue(JObj(AllFoundations(Unable))))
        /\ row.concerns =
               SqlText(DumpsValue(JList(<<IF outcome.kind = "text"
                                          THEN "Response parsing failed"
                                          ELSE "API error: backend unavailable">>)))
        /\ row.what_resonates = SqlText(<<"[", "]">>)
        /\ row.suggested_reframings = SqlText(<<"[", "]">>)

\* C20 as stated: when simulate_message returns, the store holds a
\* persona_responses row for each persona whose generation failed, carrying
\* the degraded record's score 50 and sentinel fields.
C20_DegradedPersisted ==
    [][\A r \in Requests :
          (SaveResponse(r) /\ req'[r].status = 200) =>
              \A k \in DOMAIN req[r].replies :
                  Degraded(req[r].replies[k]) =>
                      DegradedRowStored(persona_responses', req[r].simulation_id, k,
                                        req[r].replies[k])]_vars

\* C20, amended: every degraded record of a simulate request is written to
\* the store by its turn of the save loop; when simulate_message returns, the
\* store holds the row of each persona whose generation failed, with score 50
\* and the sentinel fields, provided the simulation was not deleted while the
\* request ran.
C20_DegradedPersistedUnlessDeleted ==
    [][\A r \in Requests :
          /\ (/\ SaveResponse(r)
               /\ req'[r].saved = req[r].saved + 1
               /\ Degraded(req[r].replies[req[r].tasks[req'[r].saved]])) =>
                  DegradedRowStored(persona_responses' \ persona_responses,
                                    req[r].simulation_id,
                                    req[r].tasks[req'[r].saved],
                                    req[r].replies[req[r].tasks[req'[r].saved]])
          /\ (/\ SaveResponse(r)
               /\ req'[r].status = 200
               /\ req[r].simulation_id \in DOMAIN simulations) =>
                  \A k \in DOMAIN req[r].replies :
                      Degraded(req[r].replies[k]) =>
                          DegradedRowStored(persona_responses', req[r].simulation_id, k,
                                            req[r].replies[k])]_vars

C20_Witness ==
    \E r \in Requests :
        /\ req[r].status = 200
        /\ req[r].simulation_id \in DOMAIN simulations
        /\ DOMAIN req[r].replies = {"conservative", "liberal"}
        /\ req[r].replies["conservative"] = Outcome("text", <<Prose>>)
        /\ req[r].replies["liberal"] = ApiError
        /\ DegradedRowStored(persona_responses, req[r].simulation_id, "conservative",
                             req[r].replies["conservative"])
        /\ DegradedRowStored(persona_responses, req[r].simulation_id, "liberal",
                             req[r].replies["liberal"])

\* The response row ids a get_simulation result lists.
Listed(responses) == {responses[i].id : i \in 1..Len(responses)}

\* C21: deleting a simulation is atomic across the two tables, and no
\* concurrent get_simulation observes a simulation with its responses removed
\* while its row exists: while a delete is open the other connections see the
\* simulation with all its responses, and a get_simulation that found the
\* simulation returns the responses it had at one moment of the call.
C21_NoTornObservation ==
    /\ txn.pc # "none" /\ txn.id \in DOMAIN simulations
           => responses_of(txn.id) = txn.rows
    /\ reader.pc = "returned" /\ reader.found
           => \/ reader.present
              \/ Listed(reader.responses) = {row.id : row \in reader.before}

\* C22: in every simulate request the simulations row is created and
\* committed exactly once, before the first model call of the request starts,
\* and no persona_responses row of the request is written before all of its
\* model calls have completed.
C22_CreatedBeforeCallsSavedAfter ==
    /\ sim_seq = Cardinality({r \in Requests : req[r].simulation_id > 0})
    /\ \A r \in Requests :
          /\ req[r].pc \notin {"idle", "created"} /\ req[r].status \notin {400, 422}
                 => req[r].simulation_id \in issued
          /\ Started(r) # {} \/ DOMAIN req[r].replies # {}
                 => req[r].simulation_id \in issued
          /\ \A q \in Requests \ {r} :
                 req[r].simulation_id > 0 => req[r].simulation_id # req[q].simulation_id
          /\ responses_of(req[r].simulation_id) # {}
                 => /\ req[r].pc \in {"save", "done"}
                    /\ \A c \in in_flight : c[1] # r
                    /\ DOMAIN req[r].replies = Range(req[r].tasks)

\* Both personas' calls have returned and both rows are saved under the
\* simulation created at the start of the request.
C22_Witness ==
    \E r \in Requests :
        /\ req[r].pc = "done" /\ req[r].status = 200
        /\ Len(req[r].tasks) = 2
        /\ req[r].simulation_id \in DOMAIN simulations
        /\ Cardinality(responses_of(req[r].simulation_id)) = 2

\* An opening fence line, as the trimmed reply starts with it.
OpeningFences == {Fence, FenceJson, IndentedFence}

\* C23: a reply that is a valid structured payload wrapped in formatting
\* fences (an opening fence line, the payload lines, a closing fence line) is
\* stripped of the fence lines and decoded: generate_persona_response returns
\* the decoded payload, not a degraded record.
C23_FencedPayloadDecoded ==
    gen.pc # "ready" /\ gen.outcome.kind = "text" /\ Len(gen.outcome.lines) >= 3
        => LET lines == gen.outcome.lines
               payload == SubSeq(lines, 2, Len(lines) - 1)
           IN /\ lines[1] \in OpeningFences
              /\ lines[Len(lines)] = Fence
              /\ \A i \in 1..Len(payload) : ~StartsWithFence(payload[i])
              /\ Decodable(payload)
              => /\ gen.pc # "raised"
                 /\ gen.result = Returned(json_loads(payload))
                 /\ gen.result.value # ParseErrorRecord

\* The reply the format asks for, in a json fence, came back as the record.
C23_Witness ==
    /\ gen.pc = "returned"
    /\ gen.outcome = Outcome("text", <<FenceJson, "{ok}", Fence>>)
    /\ gen.result = Returned(DocOk)

\* The lines of a trimmed reply that do not start with a fence marker.
NotFence(lines) == SelectSeq(lines, LAMBDA line : ~StartsWithFence(line))

C24_OneRowPerPersona ==
    /\ \A a, b \in persona_responses :
           a.simulation_id = b.simulation_id /\ a.persona_name = b.persona_name
               => a.id = b.id
    /\ \A r \in Requests :
           req[r].pc = "done" /\ req[r].status = 200
               => /\ Len(req[r].response_list) = Cardinality(ValidKeys(req[r].personas))
                  /\ Names(req[r].response_list) = ValidKeys(req[r].personas)

\* The request named liberal twice, around an unknown key: one row and one
\* entry, for liberal.
C24_Witness ==
    \E r \in Requests :
        /\ req[r].pc = "done" /\ req[r].status = 200
        /\ req[r].personas = <<"liberal", "socialist", "liberal">>
        /\ {row.persona_name : row \in responses_of(req[r].simulation_id)} = {"liberal"}
        /\ Cardinality(responses_of(req[r].simulation_id)) = 1
        /\ Len(req[r].response_list) = 1

\* A decoded object whose score is an integer outside the schema's range.
OutOfRange(response_data) ==
    /\ response_data.t = "dict"
    /\ "receptivity_score" \in DOMAIN response_data.d
    /\ response_data.d["receptivity_score"].t = "int"
    /\ \/ response_data.d["receptivity_score"].n < ScoreMin
       \/ response_data.d["receptivity_score"].n > ScoreMax

\* C25: the 0..100 range of receptivity_score is enforced only where the
\* typed record is built: the save turn of a decoded record whose score is
\* out of range stores the row with that score unchanged and appends the
\* record in the fallback shape without failing the request, and a request
\* that returns lists one entry per persona, the other personas' included.
C25_RangeOnlyAtTypedBoundary ==
    /\ [][\A r \in Requests :
            (/\ SaveResponse(r)
             /\ req[r].saved < Len(req[r].tasks)
             /\ OutOfRange(req[r].results[req[r].tasks[req[r].saved + 1]])) =>
                LET persona_name == req[r].tasks[req[r].saved + 1]
                    response_data == req[r].results[persona_name]
                    entry == req'[r].response_list[Len(req'[r].response_list)]
                IN /\ \E row \in persona_responses' \ persona_responses :
                          /\ row.simulation_id = req[r].simulation_id
                          /\ row.persona_name = persona_name
                          /\ row.receptivity_score =
                                 SqlInt(response_data.d["receptivity_score"].n)
                   /\ req'[r].status # 500
                   /\ Len(req'[r].response_list) = Len(req[r].response_list) + 1
                   /\ entry = [shape |-> "fallback", persona_name |-> persona_name,
                               response |-> response_data,
                               parse_error |-> "validation error"]]_vars
    /\ [](\A r \in Requests :
            req[r].pc = "done" /\ req[r].status = 200
                => /\ Len(req[r].response_list) = Len(req[r].tasks)
                   /\ \A i \in 1..Len(req[r].tasks) :
                          /\ req[r].response_list[i].persona_name = req[r].tasks[i]
                          /\ OutOfRange(req[r].results[req[r].tasks[i]])
                                 => req[r].response_list[i].shape = "fallback"
                          /\ req[r].results[req[r].tasks[i]] = DocOk
                                 => req[r].response_list[i].shape = "typed")

\* The request returned 200: the conservative reply had score 150 and is
\* stored with it and listed in the fallback shape, next to the typed liberal
\* entry.
C25_Witness ==
    \E r \in Requests :
        /\ req[r].pc = "done" /\ req[r].status = 200
        /\ req[r].tasks = <<"conservative", "liberal">>
        /\ req[r].results["conservative"] = DocScoreHigh
        /\ req[r].response_list[1].shape = "fallback"
        /\ req[r].response_list[1].response = DocScoreHigh
        /\ req[r].response_list[2].shape = "typed"
        /\ \E row \in responses_of(req[r].simulation_id) :
               /\ row.persona_name = "conservative"
               /\ row.receptivity_score = SqlInt(150)

\* C26: in the mapping generate_all_persona_responses returns, each key is
\* paired with the record generated by the call made with that key's own
\* persona configuration, whatever the order the calls complete in; no record
\* is attached to another persona's key.
C26_KeyPairedWithOwnRecord ==
    \A r \in Requests :
        req[r].pc = "save" =>
            /\ DOMAIN req[r].results = Range(req[r].tasks)
            /\ \A i \in 1..Len(req[r].tasks) :
                   LET name == req[r].tasks[i]
                   IN /\ name \in DOMAIN req[r].replies
                      /\ req[r].results[name] =
                             generate_persona_response(req[r].replies[name]).value

\* Two calls with different outcomes: the conservative call failed, the
\* liberal call was answered, and each key holds its own record.
C26_Witness ==
    \E r \in Requests :
        /\ req[r].pc = "save"
        /\ req[r].tasks = <<"conservative", "liberal">>
        /\ req[r].replies["conservative"] = ApiError
        /\ req[r].replies["liberal"] = Outcome("text", <<"{ok}">>)
        /\ req[r].results["conservative"] = ApiErrorRecord(BackendDown)
        /\ req[r].results["liberal"] = DocOk

\* C27: save_persona_response never raises for a record produced by
\* generate_persona_response: every value the generator returns, valid JSON
\* that is no object and an object whose text fields hold lists included, is
\* accepted by save_persona_response.
C27_SaveAcceptsGeneratorOutput ==
    gen.pc \in {"returned", "built"} => ~save_raises(1, gen.result.value)

\* The rows of the two tables that belong to simulations other than id.
OtherSimulations(table, id) == [j \in DOMAIN table \ {id} |-> table[j]]

OtherResponses(rows, id) == {row \in rows : row.simulation_id # id}

\* C28: delete_simulation(id) leaves every other simulation unchanged: the
\* simulations rows with another id and the persona_responses rows with
\* another simulation_id are the same before and after the call, and when no
\* simulation has the id the whole store is unchanged.
C28_DeleteLeavesTheRest ==
    [][\A id \in KnownIds :
          StoreDelete(id) \/ DeleteEndpoint(id) =>
              /\ OtherSimulations(simulations', id) = OtherSimulations(simulations, id)
              /\ OtherResponses(persona_responses', id)
                     = OtherResponses(persona_responses, id)
              /\ id \notin DOMAIN simulations
                     => /\ simulations' = simulations
                        /\ persona_responses' = persona_responses]_vars

\* A record that carries a barriers_to_persuasion list.
HasBarriers(response_data) ==
    /\ response_data.t = "dict"
    /\ "barriers_to_persuasion" \in DOMAIN response_data.d
    /\ response_data.d["barriers_to_persuasion"].t = "list"

\* C29: the barrier list round-trips under a renamed field: the record's
\* barriers_to_persuasion list is stored in the column barriers, and
\* get_simulation returns it, equal and in the same order, under the key
\* barriers (there is no key barriers_to_persuasion), while raw_response still
\* carries it under barriers_to_persuasion.
C29_BarriersRenamed ==
    (/\ ret.op = "save"
     /\ ret.ok
     /\ HasBarriers(ret.args[3])
     /\ ret.args[1] \in DOMAIN simulations) =>
        /\ ReadBack(ret.args[1], ret.id) /= {}
        /\ \A response \in ReadBack(ret.args[1], ret.id) :
               /\ "barriers" \in DOMAIN response
               /\ "barriers_to_persuasion" \notin DOMAIN response
               /\ response.barriers =
                      Decoded(PyOther(ret.args[3].d["barriers_to_persuasion"]))
               /\ response.raw_response.py = "decoded"
               /\ response.raw_response.value.t = "dict"
               /\ "barriers" \notin DOMAIN response.raw_response.value.d
               /\ response.raw_response.value.d["barriers_to_persuasion"]
                      = ret.args[3].d["barriers_to_persuasion"]

\* The record with the barriers b1, b2 was saved and reads back with them
\* under barriers.
C29_Witness ==
    /\ ret.op = "save"
    /\ ret.ok
    /\ ret.args[3] = DocOk
    /\ \E response \in ReadBack(ret.args[1], ret.id) :
           response.barriers = Decoded(PyOther(JList(<<"b1", "b2">>)))

====
